---- MODULE Spec2Model ----
(***************************************************************************)
(* A model of rename.py: the snake_case / CamelCase classifiers and        *)
(* converters, the path enumerator get_paths, and the rewrite executor     *)
(* process_file driven by main.                                            *)
(*                                                                         *)
(* A Python str is a sequence of one-character strings.                    *)
(***************************************************************************)
EXTENDS Integers, Sequences, FiniteSets, TLC

VARIABLES
    id_name,     \* case engine: the string handed to the functions
    cur,         \* case engine: the value after the conversions applied so far
    ops,         \* case engine: the conversions applied so far, in order
    verdict,     \* case engine: what the two classifiers returned for id_name
    fs,          \* the files: absolute path -> [content, mode]
    dirs,        \* the directories: a set of absolute paths
    patterns,    \* get_paths: its local `patterns`
    start_dir,   \* get_paths: its local `start_dir`; <<>> is None (or '')
    max_depth,   \* get_paths: its local `max_depth`; <<>> is None, <<n>> is n
    stack,       \* os.walk: the directories still to be listed, next first
    pending,     \* get_paths: the paths of the listed directory not yet yielded
    yielded,     \* the paths get_paths has yielded so far, in order
    pc,          \* where the run is: "start", "walk", "done", "aborted"
    args,        \* the arguments of the call: main's command line, or get_paths's
    stdout,      \* what process_file wrote to sys.stdout
    fs0,         \* the files when the run began
    calls        \* the process_file calls so far: [path, before, result]

caseVars == <<id_name, cur, ops, verdict>>
walkVars == <<patterns, start_dir, max_depth, stack, pending, yielded>>
fileVars == <<fs, dirs, pc, args, stdout, fs0, calls>>
vars == <<caseVars, walkVars, fileVars>>

----------------------------------------------------------------------------
(* Characters.                                                             *)

LowerSeq == <<"a","b","c","d","e","f","g","h","i","j","k","l","m",
              "n","o","p","q","r","s","t","u","v","w","x","y","z">>
UpperSeq == <<"A","B","C","D","E","F","G","H","I","J","K","L","M",
              "N","O","P","Q","R","S","T","U","V","W","X","Y","Z">>
DigitSeq == <<"0","1","2","3","4","5","6","7","8","9">>

Range(f) == {f[i] : i \in DOMAIN f}

\* [a-z], [A-Z], [a-z0-9] of the regular expressions
LowerAZ == Range(LowerSeq)
UpperAZ == Range(UpperSeq)
LowerAZ09 == LowerAZ \cup Range(DigitSeq)

\* str.upper() and str.lower() on one character
ToUpper(c) ==
    IF c \in LowerAZ THEN UpperSeq[CHOOSE i \in DOMAIN LowerSeq : LowerSeq[i] = c]
    ELSE c
ToLower(c) ==
    IF c \in UpperAZ THEN LowerSeq[CHOOSE i \in DOMAIN UpperSeq : UpperSeq[i] = c]
    ELSE c

\* str.lstrip(ch)
RECURSIVE LStrip(_, _)
LStrip(s, ch) ==
    IF s # <<>> /\ Head(s) = ch THEN LStrip(Tail(s), ch) ELSE s

----------------------------------------------------------------------------
(* Regular-expression matching, re.match: the expression is anchored at    *)
(* the first character.  A set of positions P holds the indices (1-based,  *)
(* the next character to read) at which the part matched so far can end.   *)

\* one character of class C
AfterClass(s, P, C) == {i + 1 : i \in {j \in P : j <= Len(s) /\ s[j] \in C}}

\* C*
RECURSIVE AfterStar(_, _, _)
AfterStar(s, P, C) ==
    LET Q == P \cup AfterClass(s, P, C)
    IN  IF Q = P THEN P ELSE AfterStar(s, Q, C)

\* $ without re.MULTILINE: the end of the string, or just before a newline
\* that is the last character
AtDollar(s, P) ==
    \E i \in P : i = Len(s) + 1 \/ (i = Len(s) /\ s[i] = "\n")

\* (_[a-z][a-z0-9]*)
SnakeWord(s, P) ==
    AfterStar(s, AfterClass(s, AfterClass(s, P, {"_"}), LowerAZ), LowerAZ09)

\* (_[a-z][a-z0-9]*)*
RECURSIVE SnakeWords(_, _)
SnakeWords(s, P) ==
    LET Q == P \cup SnakeWord(s, P)
    IN  IF Q = P THEN P ELSE SnakeWords(s, Q)

is_snake_case(s) ==
    LET first == AfterStar(s, AfterClass(s, {1}, LowerAZ), LowerAZ09)
    IN  AtDollar(s, SnakeWords(s, first))

\* (?![A-Z])
NotBeforeUpper(s, P) == {i \in P : ~(i <= Len(s) /\ s[i] \in UpperAZ)}

\* ([A-Z][a-z0-9]+)
CamelWord(s, P) ==
    AfterStar(s, AfterClass(s, AfterClass(s, P, UpperAZ), LowerAZ09), LowerAZ09)

\* ([A-Z][a-z0-9]+)*
RECURSIVE CamelWords(_, _)
CamelWords(s, P) ==
    LET Q == P \cup CamelWord(s, P)
    IN  IF Q = P THEN P ELSE CamelWords(s, Q)

is_camel_case(s) ==
    LET first == AfterStar(s, NotBeforeUpper(s, AfterClass(s, {1}, UpperAZ)),
                           LowerAZ09)
    IN  AtDollar(s, CamelWords(s, first))

----------------------------------------------------------------------------
(* Conversions.                                                            *)

\* re.compile(r'(\A|_)[a-z]').sub(lambda x: x.group().lstrip('_').upper(), s)
\* scanning from position i: the leftmost match is replaced, the scan goes on
\* after it.
RECURSIVE SubWordStart(_, _)
SubWordStart(s, i) ==
    IF i > Len(s) THEN <<>>
    ELSE IF i = 1 /\ s[1] \in LowerAZ
         THEN <<ToUpper(s[1])>> \o SubWordStart(s, 2)
    ELSE IF s[i] = "_" /\ i < Len(s) /\ s[i + 1] \in LowerAZ
         THEN <<ToUpper(s[i + 1])>> \o SubWordStart(s, i + 2)
    ELSE <<s[i]>> \o SubWordStart(s, i + 1)

snake2camel(s) ==
    IF ~is_snake_case(s) THEN s ELSE SubWordStart(s, 1)

\* re.compile(r'[A-Z]').sub(lambda x: '_' + x.group().lower(), s)
RECURSIVE SubUpper(_, _)
SubUpper(s, i) ==
    IF i > Len(s) THEN <<>>
    ELSE IF s[i] \in UpperAZ
         THEN <<"_", ToLower(s[i])>> \o SubUpper(s, i + 1)
    ELSE <<s[i]>> \o SubUpper(s, i + 1)

\* camel2snake without the lstrip('_')
camel2snake_keeps_underscore(s) ==
    IF ~is_camel_case(s) THEN s ELSE SubUpper(s, 1)

camel2snake(s) ==
    IF ~is_camel_case(s) THEN s ELSE LStrip(SubUpper(s, 1), "_")

----------------------------------------------------------------------------
(* Strings.                                                                *)

\* s[i:].startswith(t), i 1-based
StartsWithAt(s, i, t) ==
    /\ i + Len(t) - 1 <= Len(s)
    /\ SubSeq(s, i, i + Len(t) - 1) = t

\* str.replace(old, new) for a non-empty old: leftmost occurrences, not
\* overlapping
RECURSIVE ReplaceFrom(_, _, _, _)
ReplaceFrom(s, old, new, i) ==
    IF i > Len(s) THEN <<>>
    ELSE IF StartsWithAt(s, i, old)
         THEN new \o ReplaceFrom(s, old, new, i + Len(old))
    ELSE <<s[i]>> \o ReplaceFrom(s, old, new, i + 1)

\* str.replace('', new): new goes before every character and at the end
RECURSIVE Interleave(_, _)
Interleave(s, new) ==
    IF s = <<>> THEN new ELSE new \o <<Head(s)>> \o Interleave(Tail(s), new)

StrReplace(s, old, new) ==
    IF old = <<>> THEN Interleave(s, new) ELSE ReplaceFrom(s, old, new, 1)

\* str.split(sep) for a one-character sep
RECURSIVE Split(_, _)
Split(s, sep) ==
    IF \A i \in 1..Len(s) : s[i] # sep THEN <<s>>
    ELSE LET k == CHOOSE i \in 1..Len(s) :
                      s[i] = sep /\ \A j \in 1..(i - 1) : s[j] # sep
         IN  <<SubSeq(s, 1, k - 1)>> \o Split(SubSeq(s, k + 1, Len(s)), sep)

\* ''.join(parts)
RECURSIVE Concat(_)
Concat(parts) ==
    IF parts = <<>> THEN <<>> ELSE Head(parts) \o Concat(Tail(parts))

\* sep.join(parts)
RECURSIVE JoinWith(_, _)
JoinWith(parts, sep) ==
    IF parts = <<>> THEN <<>>
    ELSE IF Len(parts) = 1 THEN parts[1]
    ELSE parts[1] \o <<sep>> \o JoinWith(Tail(parts), sep)

----------------------------------------------------------------------------
(* Renaming in text.                                                       *)

ANY_SEQUENCE == 0
ALLOW_UNDERSCORES == 1
WHOLE_WORD == 2

edit_line(src, dest, word_option, line) == StrReplace(line, src, dest)

edit_text(src, dest, word_option, text_lines) ==
    [i \in DOMAIN text_lines |-> edit_line(src, dest, word_option, text_lines[i])]

----------------------------------------------------------------------------
(* Paths, as posixpath computes them.                                      *)

\* os.getcwd()
Cwd == <<"/", "w">>

\* the index of the last "/" of p, 0 when it has none: p.rfind('/') + 1
LastSlash(p) ==
    IF \A i \in 1..Len(p) : p[i] # "/" THEN 0
    ELSE CHOOSE i \in 1..Len(p) :
             p[i] = "/" /\ \A j \in (i + 1)..Len(p) : p[j] # "/"

\* str.rstrip(ch)
RECURSIVE RStrip(_, _)
RStrip(s, ch) ==
    IF s # <<>> /\ s[Len(s)] = ch THEN RStrip(SubSeq(s, 1, Len(s) - 1), ch) ELSE s

\* os.path.basename
basename(p) == SubSeq(p, LastSlash(p) + 1, Len(p))

\* os.path.dirname
dirname(p) ==
    LET head == SubSeq(p, 1, LastSlash(p))
    IN  IF head # <<>> /\ \E i \in 1..Len(head) : head[i] # "/"
        THEN RStrip(head, "/") ELSE head

\* os.path.join(a, b)
join(a, b) ==
    IF b # <<>> /\ b[1] = "/" THEN b
    ELSE IF a = <<>> \/ a[Len(a)] = "/" THEN a \o b
    ELSE a \o <<"/">> \o b

\* os.path.isabs
isabs(p) == p # <<>> /\ p[1] = "/"

\* the loop of os.path.normpath over the components of an absolute path:
\* '' and '.' are dropped, '..' drops the component before it, if any
RECURSIVE NormComps(_, _)
NormComps(comps, new_comps) ==
    IF comps = <<>> THEN new_comps
    ELSE LET comp == Head(comps)
         IN  IF comp = <<>> \/ comp = <<".">>
             THEN NormComps(Tail(comps), new_comps)
             ELSE IF comp = <<".", ".">>
             THEN NormComps(Tail(comps),
                            SubSeq(new_comps, 1, Len(new_comps) - 1))
             ELSE NormComps(Tail(comps), Append(new_comps, comp))

\* os.path.abspath: normpath(join(os.getcwd(), p)); exactly two leading
\* slashes are kept
abspath(p) ==
    LET q       == IF isabs(p) THEN p ELSE join(Cwd, p)
        initial == IF Len(q) >= 2 /\ q[2] = "/" /\ ~(Len(q) >= 3 /\ q[3] = "/")
                   THEN <<"/", "/">> ELSE <<"/">>
    IN  initial \o JoinWith(NormComps(Split(q, "/"), <<>>), "/")

\* the absolute path of the components comps
PathOf(comps) == <<"/">> \o JoinWith(comps, "/")

\* the kernel's path lookup, one component at a time from the root: at each
\* component, also an empty one, '.' or '..', the place reached so far must
\* be a directory
RECURSIVE WalkComps(_, _, _)
WalkComps(ds, comps, at) ==
    IF comps = <<>> THEN [ok |-> TRUE, at |-> at]
    ELSE IF ~(at = <<>> \/ PathOf(at) \in ds) THEN [ok |-> FALSE, at |-> at]
    ELSE LET comp == Head(comps)
         IN  IF comp = <<>> \/ comp = <<".">>
             THEN WalkComps(ds, Tail(comps), at)
             ELSE IF comp = <<".", ".">>
             THEN WalkComps(ds, Tail(comps), SubSeq(at, 1, Len(at) - 1))
             ELSE WalkComps(ds, Tail(comps), Append(at, comp))

\* what a path given to open, scandir, chmod or unlink names, with the
\* directories ds: the absolute path reached, and whether the lookup got
\* there; the empty path names nothing
Resolve(ds, p) ==
    IF p = <<>> THEN [ok |-> FALSE, path |-> <<>>]
    ELSE LET r == WalkComps(ds, Split(IF isabs(p) THEN p ELSE join(Cwd, p), "/"),
                            <<>>)
         IN  [ok |-> r.ok, path |-> PathOf(r.at)]

At(ds, p) == Resolve(ds, p).path

\* the components of an absolute path: [x for x in p.split('/') if x]
Components(p) == SelectSeq(Split(p, "/"), LAMBDA x : x # <<>>)

\* the length of the longest common prefix of two sequences
RECURSIVE CommonLen(_, _)
CommonLen(a, b) ==
    IF a # <<>> /\ b # <<>> /\ Head(a) = Head(b)
    THEN 1 + CommonLen(Tail(a), Tail(b)) ELSE 0

\* os.path.relpath(path, start=start)
relpath(path, start) ==
    LET start_list == Components(abspath(start))
        path_list  == Components(abspath(path))
        i          == CommonLen(start_list, path_list)
        rel_list   == [k \in 1..(Len(start_list) - i) |-> <<".", ".">>]
                      \o SubSeq(path_list, i + 1, Len(path_list))
    IN  IF rel_list = <<>> THEN <<".">> ELSE JoinWith(rel_list, "/")

\* fnmatch.fnmatch(name, pat) on POSIX, for patterns of '*', '?' and
\* literal characters
RECURSIVE fnmatch(_, _)
fnmatch(name, pat) ==
    IF pat = <<>> THEN name = <<>>
    ELSE IF Head(pat) = "*"
         THEN \/ fnmatch(name, Tail(pat))
              \/ name # <<>> /\ fnmatch(Tail(name), pat)
    ELSE /\ name # <<>>
         /\ Head(pat) = "?" \/ Head(pat) = Head(name)
         /\ fnmatch(Tail(name), Tail(pat))

\* fnmatch.filter(names, pat)
fnmatch_filter(names, pat) == SelectSeq(names, LAMBDA n : fnmatch(n, pat))

----------------------------------------------------------------------------
(* Text files.  The content of a file is its decoded text; BadByte stands  *)
(* for a byte sequence that is not UTF-8.  The mode is the set of the      *)
(* owner's permission bits.                                                *)

BadByte == "#"

\* the mode open(.., 'w') gives a file it creates
DefaultMode == {"r", "w"}

\* io.open(path, 'r'): universal newlines, '\r\n' and '\r' are read as '\n'
RECURSIVE TranslateNewlines(_)
TranslateNewlines(s) ==
    IF s = <<>> THEN <<>>
    ELSE IF Head(s) = "\r" /\ Len(s) > 1 /\ s[2] = "\n"
         THEN <<"\n">> \o TranslateNewlines(SubSeq(s, 3, Len(s)))
    ELSE IF Head(s) = "\r" THEN <<"\n">> \o TranslateNewlines(Tail(s))
    ELSE <<Head(s)>> \o TranslateNewlines(Tail(s))

\* the lines of a text, each with its '\n', the last perhaps without
RECURSIVE SplitLines(_)
SplitLines(s) ==
    IF s = <<>> THEN <<>>
    ELSE IF \A i \in 1..Len(s) : s[i] # "\n" THEN <<s>>
    ELSE LET k == CHOOSE i \in 1..Len(s) :
                      s[i] = "\n" /\ \A j \in 1..(i - 1) : s[j] # "\n"
         IN  <<SubSeq(s, 1, k)>> \o SplitLines(SubSeq(s, k + 1, Len(s)))

\* in_file.readlines()
readlines(content) == SplitLines(TranslateNewlines(content))

\* out_file.writelines(lines): on POSIX '\n' is written as it is
writelines(lines) == Concat(lines)

\* io.open(path, 'r', encoding='utf-8') and readlines() succeed
CanRead(fsys, ds, path) ==
    /\ Resolve(ds, path).ok
    /\ At(ds, path) \in DOMAIN fsys
    /\ "r" \in fsys[At(ds, path)].mode
    /\ BadByte \notin Range(fsys[At(ds, path)].content)

\* io.open(new_path, 'w', encoding='utf-8') succeeds: new_path names no
\* directory, and a file that can be written or a place in one of the
\* directories ds, in which the user may create files (not so in the root)
CanWrite(fsys, ds, new_path) ==
    /\ Resolve(ds, new_path).ok
    /\ At(ds, new_path) \notin ds \cup {<<"/">>}
    /\ dirname(At(ds, new_path)) \in ds
    /\ At(ds, new_path) \in DOMAIN fsys => "w" \in fsys[At(ds, new_path)].mode

\* open(.., 'w') and writelines: the file is created or truncated, then written
WriteFile(fsys, p, content) ==
    [q \in DOMAIN fsys \cup {p} |->
        IF q = p
        THEN [content |-> content,
              mode |-> IF p \in DOMAIN fsys THEN fsys[p].mode ELSE DefaultMode]
        ELSE fsys[q]]

\* shutil.copymode(src, dst)
copymode(fsys, src, dst) ==
    [fsys EXCEPT ![dst] = [@ EXCEPT !.mode = fsys[src].mode]]

\* os.unlink(p)
unlink(fsys, p) == [q \in DOMAIN fsys \ {p} |-> fsys[q]]

\* difflib.unified_diff(a, b, fromfile, tofile) written to sys.stdout: nothing
\* when the lines are equal, otherwise one diff, kept as what it renders
unified_diff(a, b, fromfile, tofile) ==
    IF a = b THEN <<>>
    ELSE <<[fromfile |-> fromfile, tofile |-> tofile, a |-> a, b |-> b]>>

\* process_file's new_path: the path renamed, unless text_only
candidate_path(src, dest, word_option, path, text_only) ==
    IF ~text_only THEN edit_line(src, dest, word_option, path) ELSE path

\* process_file without diff, once new_path is open for writing: the lines
\* are written to new_path; if that is another path than path, it gets path's
\* mode and path is removed
rewrite(fsys, ds, path, new_path, out_lines) ==
    LET written == WriteFile(fsys, At(ds, new_path), writelines(out_lines))
    IN  IF new_path # path
        THEN unlink(copymode(written, At(ds, path), At(ds, new_path)), At(ds, path))
        ELSE written

\* emit with the write outside the else: the diff is printed and the lines
\* are written all the same
emit_diff_also_writes(fsys, ds, path, new_path, in_lines, out_lines, diff) ==
    IF ~CanWrite(fsys, ds, new_path)
    THEN [fs |-> fsys, out |-> <<>>, result |-> "error"]
    ELSE [fs |-> WriteFile(fsys, At(ds, new_path), writelines(out_lines)),
          out |-> IF diff
                  THEN unified_diff(in_lines, out_lines, path, new_path)
                  ELSE <<>>,
          result |-> "ok"]

\* process_file after the file is read: the diff goes to stdout and the files
\* are left alone, or the lines are written; the files afterwards, what was
\* written to stdout, and whether it returned or raised
emit(fsys, ds, path, new_path, in_lines, out_lines, diff) ==
    IF diff
    THEN [fs |-> fsys,
          out |-> unified_diff(in_lines, out_lines, path, new_path),
          result |-> "ok"]
    ELSE IF ~CanWrite(fsys, ds, new_path)
         THEN [fs |-> fsys, out |-> <<>>, result |-> "error"]
    ELSE [fs |-> rewrite(fsys, ds, path, new_path, out_lines),
          out |-> <<>>,
          result |-> "ok"]

\* process_file on the files fsys and directories ds
process_file(fsys, ds, src, dest, word_option, path, diff, text_only) ==
    LET new_path == candidate_path(src, dest, word_option, path, text_only)
    IN  IF ~CanRead(fsys, ds, path)
        THEN [fs |-> fsys, out |-> <<>>, result |-> "error"]
        ELSE LET in_lines  == readlines(fsys[At(ds, path)].content)
                 out_lines == edit_text(src, dest, word_option, in_lines)
             IN  emit(fsys, ds, path, new_path, in_lines, out_lines, diff)

----------------------------------------------------------------------------
(* The case engine as a state machine: an identifier is drawn, classified  *)
(* and converted, at most MaxOps conversions in a row.                     *)

MaxLen == 4
MaxOps == 2

Alphabet == {"h", "H", "W", "6", "_", "\n", " "}

Identifiers == UNION {[1..n -> Alphabet] : n \in 0..MaxLen}

\* the case engine at rest, for the specifications that do not use it
IdleCase ==
    /\ id_name = <<>>
    /\ cur = <<>>
    /\ ops = <<>>
    /\ verdict = <<>>

\* the files and the enumerator at rest, for the specification of the case engine
IdleFiles ==
    /\ fs = <<>>
    /\ dirs = {}
    /\ patterns = <<>>
    /\ start_dir = <<>>
    /\ max_depth = <<>>
    /\ stack = <<>>
    /\ pending = <<>>
    /\ yielded = <<>>
    /\ pc = "idle"
    /\ args = <<>>
    /\ stdout = <<>>
    /\ fs0 = <<>>
    /\ calls = <<>>

InitCase ==
    /\ id_name \in Identifiers
    /\ cur = id_name
    /\ ops = <<>>
    /\ verdict = <<>>
    /\ IdleFiles

\* is_snake_case(id_name), is_camel_case(id_name)
Classify ==
    /\ verdict = <<>>
    /\ verdict' = <<is_snake_case(id_name), is_camel_case(id_name)>>
    /\ UNCHANGED <<id_name, cur, ops, walkVars, fileVars>>

Snake2Camel ==
    /\ Len(ops) < MaxOps
    /\ cur' = snake2camel(cur)
    /\ ops' = Append(ops, "snake2camel")
    /\ UNCHANGED <<id_name, verdict, walkVars, fileVars>>

Camel2Snake ==
    /\ Len(ops) < MaxOps
    /\ cur' = camel2snake(cur)
    /\ ops' = Append(ops, "camel2snake")
    /\ UNCHANGED <<id_name, verdict, walkVars, fileVars>>

NextCase == Classify \/ Snake2Camel \/ Camel2Snake

SpecCase == InitCase /\ [][NextCase]_vars

----------------------------------------------------------------------------
(* get_paths, a generator over os.walk.                                    *)

\* the orders in which a directory listing can return the names S
Orders(S) ==
    {f \in [1..Cardinality(S) -> S] : \A i, j \in DOMAIN f : f[i] = f[j] => i = j}

\* the names of the files, and of the directories, directly in directory d
FilesIn(fsys, d) == {basename(p) : p \in {q \in DOMAIN fsys : dirname(q) = d}}
DirsIn(ds, d) == {basename(p) : p \in {q \in ds : q # d /\ dirname(q) = d}}

\* names += fnmatch.filter(files, pattern), for each pattern in turn
RECURSIVE MatchingNames(_, _)
MatchingNames(files, pats) ==
    IF pats = <<>> THEN <<>>
    ELSE fnmatch_filter(files, Head(pats)) \o MatchingNames(files, Tail(pats))

\* len(relpath.split(os.sep))
Depth(root, start) == Len(Split(relpath(root, start), "/"))

\* the head of get_paths, run when the generator is first resumed: the
\* shortcut for one pattern, the default start directory
GetPathsBegin ==
    /\ pc = "begin"
    /\ LET shortcut == /\ Len(patterns) = 1
                       /\ start_dir = <<>>
                       /\ dirname(patterns[1]) # <<>>
           start    == IF shortcut THEN dirname(patterns[1])
                       ELSE IF start_dir = <<>> THEN Cwd
                       ELSE start_dir
       IN  /\ patterns' = IF shortcut THEN <<basename(patterns[1])>> ELSE patterns
           /\ max_depth' = IF shortcut THEN <<1>> ELSE max_depth
           /\ start_dir' = start
           /\ stack' = <<start>>
    /\ pc' = "walk"
    /\ UNCHANGED <<pending, yielded, fs, dirs, args, stdout, fs0, calls, caseVars>>

\* os.walk lists the next directory, in any order, and get_paths collects the
\* names in it that match; a directory deeper than max_depth is skipped, its
\* subdirectories are walked all the same
WalkDir ==
    /\ pc = "walk"
    /\ pending = <<>>
    /\ stack # <<>>
    /\ LET root == Head(stack)
       IN  IF ~Resolve(dirs, root).ok \/ At(dirs, root) \notin dirs \cup {<<"/">>}
           THEN /\ stack' = Tail(stack)
                /\ pending' = <<>>
           ELSE \E files \in Orders(FilesIn(fs, At(dirs, root))),
                   subdirs \in Orders(DirsIn(dirs, At(dirs, root))) :
                    /\ stack' = [i \in DOMAIN subdirs |-> join(root, subdirs[i])]
                                \o Tail(stack)
                    /\ pending' =
                         IF max_depth # <<>> /\ Depth(root, start_dir) > max_depth[1]
                         THEN <<>>
                         ELSE LET names == MatchingNames(files, patterns)
                              IN  [i \in DOMAIN names |-> join(root, names[i])]
    /\ UNCHANGED <<patterns, start_dir, max_depth, yielded, fileVars, caseVars>>

\* the caller takes the next path get_paths yields
TakePath ==
    /\ pc = "walk"
    /\ pending # <<>>
    /\ yielded' = Append(yielded, Head(pending))
    /\ pending' = Tail(pending)
    /\ UNCHANGED <<patterns, start_dir, max_depth, stack, fileVars, caseVars>>

\* os.walk is exhausted: the generator ends, and with it the caller's loop
Exhausted ==
    /\ pc = "walk"
    /\ pending = <<>>
    /\ stack = <<>>
    /\ pc' = "done"
    /\ UNCHANGED <<walkVars, fs, dirs, args, stdout, fs0, calls, caseVars>>

----------------------------------------------------------------------------
(* get_paths called on a file tree, its paths only collected.              *)

MaxDepthArg == 2

\* the directories /w, /w/d, /w/d/s and /w/e
TreeDirs ==
    {Cwd, Cwd \o <<"/", "d">>, Cwd \o <<"/", "d", "/", "s">>, Cwd \o <<"/", "e">>}

TreeFiles ==
    {Cwd \o <<"/", "a">>, Cwd \o <<"/", "b">>,
     Cwd \o <<"/", "d", "/", "a">>, Cwd \o <<"/", "d", "/", "s", "/", "a">>,
     Cwd \o <<"/", "e", "/", "a">>}

PatternLists ==
    { << <<"*">> >>, << <<"a">> >>, << <<"?">>, <<"a">> >>,
      << <<"*">>, <<"*">> >>, << <<"d", "/", "*">> >>,
      << <<"d", "/", "a">> >>, << <<"d", "/", "*">>, <<"b">> >> }

StartDirs == {<<>>, <<"d">>, <<"d", "/">>, Cwd \o <<"/", "d">>}

PlainFile == [content |-> <<>>, mode |-> DefaultMode]

InitPaths ==
    /\ IdleCase
    /\ dirs = TreeDirs
    /\ \E present \in SUBSET TreeFiles : fs = [p \in present |-> PlainFile]
    /\ patterns \in PatternLists
    /\ start_dir \in StartDirs
    /\ max_depth \in {<<>>} \cup {<<n>> : n \in 1..MaxDepthArg}
    /\ stack = <<>>
    /\ pending = <<>>
    /\ yielded = <<>>
    /\ pc = "begin"
    /\ args = [patterns |-> patterns, start_dir |-> start_dir,
               max_depth |-> max_depth]
    /\ stdout = <<>>
    /\ fs0 = fs
    /\ calls = <<>>

NextPaths == GetPathsBegin \/ WalkDir \/ TakePath \/ Exhausted

SpecPaths == InitPaths /\ [][NextPaths]_vars

----------------------------------------------------------------------------
(* main: every path get_paths yields is handed to process_file; an         *)
(* exception of process_file is not caught and ends the run.               *)

MaxFiles == 2

RunDirs == {Cwd, Cwd \o <<"/", "d">>}

RunFiles ==
    {Cwd \o <<"/", "f", "o">>, Cwd \o <<"/", "b", "a">>,
     Cwd \o <<"/", "d", "/", "f", "o">>}

\* a plain file, a file with '\r\n' and no final newline that is executable,
\* a read-only file, a file that cannot be read, a file that is not UTF-8
FileKinds ==
    {[content |-> <<"f", "o", "\n">>, mode |-> {"r", "w"}],
     [content |-> <<"f", "o", "\r", "\n", "b">>, mode |-> {"r", "w", "x"}],
     [content |-> <<"f", "o", "\n">>, mode |-> {"r"}],
     [content |-> <<"f", "o", "\n">>, mode |-> {"w"}],
     [content |-> <<BadByte>>, mode |-> {"r", "w"}]}

RunPatternLists ==
    { << <<"*">> >>, << <<"f", "*">> >>, << <<"*">>, <<"f", "*">> >>,
      << <<"d", "/", "*">> >> }

\* SOURCE, DEST and the word flags
Renamings ==
    {[source |-> <<"f", "o">>, dest |-> <<"b", "a">>,
      word |-> TRUE, almost_word |-> FALSE],
     [source |-> <<"f">>, dest |-> <<"f", "f">>,
      word |-> FALSE, almost_word |-> TRUE],
     [source |-> <<"w">>, dest |-> <<"x">>,
      word |-> FALSE, almost_word |-> FALSE],
     [source |-> <<>>, dest |-> <<"x">>,
      word |-> FALSE, almost_word |-> FALSE],
     [source |-> <<"f", "o">>, dest |-> <<>>,
      word |-> FALSE, almost_word |-> FALSE],
     [source |-> <<"d", "/">>, dest |-> <<"d", "/", "/">>,
      word |-> FALSE, almost_word |-> FALSE]}

InitRun ==
    /\ IdleCase
    /\ dirs = RunDirs
    /\ \E present \in {S \in SUBSET RunFiles : Cardinality(S) <= MaxFiles} :
           fs \in [present -> FileKinds]
    /\ \E r \in Renamings, pats \in RunPatternLists, d \in BOOLEAN, t \in BOOLEAN :
           args = [source |-> r.source, dest |-> r.dest, patterns |-> pats,
                   word |-> r.word, almost_word |-> r.almost_word,
                   diff |-> d, text_only |-> t]
    /\ patterns = <<>>
    /\ start_dir = <<>>
    /\ max_depth = <<>>
    /\ stack = <<>>
    /\ pending = <<>>
    /\ yielded = <<>>
    /\ pc = "start"
    /\ stdout = <<>>
    /\ fs0 = fs
    /\ calls = <<>>

\* main's word_option
word_option(a) ==
    IF a.word THEN WHOLE_WORD
    ELSE IF a.almost_word THEN ALLOW_UNDERSCORES
    ELSE ANY_SEQUENCE

\* main up to its loop: get_paths(args.patterns, start_dir=None, max_depth=None)
Main ==
    /\ pc = "start"
    /\ patterns' = args.patterns
    /\ start_dir' = <<>>
    /\ max_depth' = <<>>
    /\ pc' = "begin"
    /\ UNCHANGED <<stack, pending, yielded, fs, dirs, args, stdout, fs0, calls,
                   caseVars>>

\* main with the call of process_file in a try that logs and goes on
AfterCallContinue(result) == "walk"

\* where main goes after a call of process_file: an exception is not caught
AfterCall(result) == IF result = "error" THEN "aborted" ELSE "walk"

\* one turn of main's loop: the next path is yielded and process_file runs on
\* it; if it raises, the run ends there
ProcessNext ==
    /\ pc = "walk"
    /\ pending # <<>>
    /\ LET path == Head(pending)
           r    == process_file(fs, dirs, args.source, args.dest,
                                word_option(args), path, args.diff,
                                args.text_only)
       IN  /\ fs' = r.fs
           /\ stdout' = stdout \o r.out
           /\ calls' = Append(calls, [path |-> path, before |-> fs,
                                      result |-> r.result])
           /\ pc' = AfterCall(r.result)
           /\ yielded' = Append(yielded, path)
    /\ pending' = Tail(pending)
    /\ UNCHANGED <<patterns, start_dir, max_depth, stack, dirs, args, fs0,
                   caseVars>>

NextRun == Main \/ GetPathsBegin \/ WalkDir \/ ProcessNext \/ Exhausted

SpecRun == InitRun /\ [][NextRun]_vars

----------------------------------------------------------------------------
(* The properties checked.                                                 *)

\* C1: every string is_snake_case accepts comes back unchanged from
\* snake2camel followed by camel2snake.
SnakeRoundTrip ==
    (is_snake_case(id_name) /\ ops = <<"snake2camel", "camel2snake">>)
        => cur = id_name

\* C2: for every string is_camel_case accepts, camel2snake gives a string
\* is_snake_case accepts, and snake2camel of that is the string again.
CamelRoundTrip ==
    is_camel_case(id_name) =>
        /\ ops = <<"camel2snake">> => is_snake_case(cur)
        /\ ops = <<"camel2snake", "snake2camel">> => cur = id_name

\* a CamelCase identifier of two words has made the round trip
CamelRoundTripWitness ==
    /\ is_camel_case(id_name)
    /\ Len(id_name) = 4
    /\ id_name[3] \in UpperAZ
    /\ ops = <<"camel2snake", "snake2camel">>
    /\ cur = id_name

\* C3: with diff enabled the files are, at every point of the run, the files
\* the run began with: none created, removed, rewritten or given another mode.
DiffModeMutatesNothing ==
    args.diff => fs = fs0 /\ dirs = RunDirs

\* a run with diff has ended after printing the diff of a file whose
\* candidate path is another path
DiffModeWitness ==
    /\ args.diff
    /\ pc = "done"
    /\ stdout # <<>>
    /\ stdout[1].tofile # stdout[1].fromfile

LastCall == calls[Len(calls)]

\* the lines of a file as they are stored: each ends after its own '\r\n',
\* '\r' or '\n', the last perhaps without a terminator
RECURSIVE OriginalLines(_)
OriginalLines(s) ==
    IF s = <<>> THEN <<>>
    ELSE LET ends == {i \in 1..Len(s) :
                         \/ s[i] = "\n"
                         \/ s[i] = "\r" /\ (i = Len(s) \/ s[i + 1] # "\n")}
         IN  IF ends = {} THEN <<s>>
             ELSE LET k == CHOOSE i \in ends : \A j \in ends : i <= j
                  IN  <<SubSeq(s, 1, k)>> \o
                      OriginalLines(SubSeq(s, k + 1, Len(s)))

\* C4: after process_file has returned, without diff, for path p with
\* candidate path c, the file at c holds exactly the lines of the original
\* file, line endings included, with source replaced by dest, it has the mode
\* p had, and if c is not p there is no file at p.
RewritePostState ==
    (calls # <<>> /\ ~args.diff /\ LastCall.result = "ok") =>
        LET p     == LastCall.path
            c     == IF args.text_only THEN p
                     ELSE StrReplace(p, args.source, args.dest)
            orig  == LastCall.before[At(dirs, p)]
            lines == OriginalLines(orig.content)
        IN  /\ At(dirs, c) \in DOMAIN fs
            /\ fs[At(dirs, c)].content =
                   Concat([i \in DOMAIN lines |->
                              StrReplace(lines[i], args.source, args.dest)])
            /\ fs[At(dirs, c)].mode = orig.mode
            /\ c # p => At(dirs, p) \notin DOMAIN fs

\* C5: get_paths yields no path more than once.
NoPathYieldedTwice ==
    \A i, j \in DOMAIN yielded : yielded[i] = yielded[j] => i = j

\* C6: called with one pattern that has a directory part and no start
\* directory, get_paths yields only files directly in that directory whose
\* name matches the name part of the pattern.
SingleFolderNotRecursive ==
    (/\ Len(args.patterns) = 1
     /\ args.start_dir = <<>>
     /\ dirname(args.patterns[1]) # <<>>)
        => \A i \in DOMAIN yielded :
               /\ dirname(abspath(yielded[i])) = abspath(dirname(args.patterns[1]))
               /\ fnmatch(basename(yielded[i]), basename(args.patterns[1]))

\* with text_only and without diff, a completed run leaves the set of file
\* paths as it was
TextOnlyKeepsPaths ==
    (pc = "done" /\ ~args.diff /\ args.text_only) => DOMAIN fs = DOMAIN fs0

\* C7: after a completed run with text_only and without diff the set of file
\* paths is the set before the run, and every processed file holds what it
\* held before the run with source replaced by dest.
TextOnlyNeverRenames ==
    (pc = "done" /\ ~args.diff /\ args.text_only) =>
        /\ DOMAIN fs = DOMAIN fs0
        /\ \A i \in DOMAIN yielded :
               LET p     == At(dirs, yielded[i])
                   lines == readlines(fs0[p].content)
               IN  fs[p].content =
                       Concat([k \in DOMAIN lines |->
                                  StrReplace(lines[k], args.source, args.dest)])

\* C8: a string is_snake_case accepts has only characters of [a-z0-9_], a
\* string is_camel_case accepts only characters of [A-Za-z0-9].
ClassifiersWholeString ==
    verdict # <<>> =>
        /\ verdict[1] => Range(id_name) \subseteq LowerAZ09 \cup {"_"}
        /\ verdict[2] => Range(id_name) \subseteq UpperAZ \cup LowerAZ09

\* C9: once a call of process_file has raised, no file is touched any more,
\* no further call is made and nothing more is printed; what the earlier
\* calls did stays.
AbortOnFirstFailure ==
    [][(\E i \in DOMAIN calls : calls[i].result = "error")
           => (fs' = fs /\ calls' = calls /\ stdout' = stdout)]_vars

\* the run has ended at a file that failed, after an earlier file was
\* rewritten and with a path still to come
AbortWitness ==
    /\ pc = "aborted"
    /\ Len(calls) >= 2
    /\ calls[Len(calls)].result = "error"
    /\ fs # fs0
    /\ pending # <<>>

\* C10: a completed run that renames, without diff, ends with as many files
\* as it began with.
NoCollateralLoss ==
    (pc = "done" /\ ~args.diff /\ ~args.text_only)
        => Cardinality(DOMAIN fs) = Cardinality(DOMAIN fs0)

====
